---- MODULE Spec2Model ----
(***************************************************************************)
(* Model of src/middleware.ts: an edge middleware that denies requests by  *)
(* country, User-Agent allow-list and per-IP rate limit, counts allowed    *)
(* and denied requests in Redis keys with a TTL, and sends one Telegram    *)
(* alert when the allowed count crosses a threshold.                       *)
(*                                                                         *)
(* Every await of middleware() is a separate step: the Redis command (or   *)
(* the rate limiter's atomic script) takes effect in that step together    *)
(* with the synchronous code that follows it up to the next await.         *)
(* Strings that are searched by substring are sequences of characters.     *)
(* An optional value (undefined / null) is the empty sequence <<>>; a      *)
(* present value v is <<v>>.  Time is kept as remaining seconds of every   *)
(* TTL; Tick lets seconds pass and expires keys.                           *)
(***************************************************************************)
EXTENDS Integers, Sequences, FiniteSets, TLC

\* --------------------------------------------------------------- settings

BLOCKED_COUNTRIES ==
  <<"VN", "CN", "IN", "PK", "BR", "ID", "TH", "TR", "EG", "SC", "IR", "NG", "RU">>

ALLOWED_USER_AGENTS ==
  << <<"C","h","r","o","m","e">>,
     <<"F","i","r","e","f","o","x">>,
     <<"S","a","f","a","r","i">>,
     <<"E","d","g">>,
     <<"O","P","R">>,
     <<"G","o","o","g","l","e","b","o","t">>,
     <<"B","i","n","g","b","o","t">>,
     <<"S","l","u","r","p">>,
     <<"D","u","c","k","D","u","c","k","B","o","t">>,
     <<"Y","a","n","d","e","x","B","o","t">> >>

\* A capacity of one request more.
INDIVIDUAL_RATE_LIMIT_11 == [requests |-> 11, window |-> 10]

INDIVIDUAL_RATE_LIMIT == [requests |-> 10, window |-> 10]

ATTACK_THRESHOLD == 10000

ATTACK_TIME_WINDOW_SECONDS == 60

totalKey == "attack:total"

blockedKey == "attack:blocked"

flagKey == "notification_sent_flag"

Keys == {totalKey, blockedKey, flagKey}

DEFAULT_IP == "127.0.0.1"

\* ----------------------------------------------------------------- bounds

\* Requests started in one behaviour of Spec.
MaxRequests == 3

\* Requests started in one behaviour of SpecRate (one window, one key).
MaxRateRequests == 12

\* Requests started in one behaviour of SpecClassify.
MaxClassifyRequests == 2

\* Requests started in one behaviour of SpecFault.
MaxFaultRequests == 3

\* Requests started in one behaviour of SpecSeq.
MaxSeqRequests == 3

\* Requests started in one behaviour of SpecRead.
MaxReadRequests == 3

\* Seconds that may pass in one Tick of every specification but SpecRate.
TickSteps == {30}

\* Seconds that may pass in one Tick of SpecRate.
RateTickSteps == {5}

Procs == {"p1", "p2"}

\* The one invocation of the specifications that take requests one at a time.
OneProc == {"p1"}

\* ------------------------------------------------------------------ state

VARIABLES
  redis,      \* TRUE iff the Redis client was created (line 46)
  ratelimit,  \* TRUE iff the Ratelimit object was created (line 51)
  telegram,   \* TRUE iff TELEGRAM_BOT_TOKEN and TELEGRAM_CHAT_ID are set
  agents,     \* the allow-list as the process holds it (a sequence)
  probe,      \* TRUE iff the behaviour records loc[p].own and loc[p].expired
  store,      \* Redis: key -> [val: <<>> or <<v>>, ttl: seconds left or NoTTL]
  limiter,    \* rate limiter: client key -> [count, ttl] of its current window
  pc,         \* per invocation of middleware(): the await it is suspended at
  req,        \* per invocation: the request
  resp,       \* per invocation: the response returned (<<>> until it returns)
  loc,        \* per invocation: local variables of middleware()
  nreq,       \* requests started so far
  alerts,     \* sendTelegramMessage calls since attack:total was last created
  delivered,  \* messages delivered to Telegram since attack:total was last created
  flagSets,   \* SETs of the flag since attack:total was last created
  denied,     \* deny-path increments since attack:blocked was last absent
  deniedInWindow, \* deny-path increments since attack:total was last created
  admitted,   \* client key -> limit() successes in the key's current window
  calls,      \* client key -> limit() calls in the key's current window
  age         \* seconds since the INCR that created attack:total

vars == <<redis, ratelimit, telegram, agents, probe, store, limiter, pc, req, resp, loc,
          nreq, alerts, delivered, flagSets, denied, deniedInWindow, admitted, calls, age>>

ghosts == <<alerts, delivered, flagSets, denied, deniedInWindow, admitted, calls, age>>

env == <<redis, ratelimit, telegram, agents, probe>>

NoTTL == -1

Absent == [val |-> <<>>, ttl |-> NoTTL]

\* ------------------------------------------------------ Redis primitives

Exists(s, k) == s[k].val # <<>>

\* INCR: a missing key counts from 0 and is created without a TTL; the TTL
\* of an existing key is kept.
Incr(s, k) ==
  IF Exists(s, k)
  THEN [s EXCEPT ![k].val = <<s[k].val[1] + 1>>]
  ELSE [s EXCEPT ![k] = [val |-> <<1>>, ttl |-> NoTTL]]

\* EXPIRE key seconds: sets the TTL of an existing key, whatever it was.
Expire(s, k, seconds) ==
  IF Exists(s, k) THEN [s EXCEPT ![k].ttl = seconds] ELSE s

\* EXPIRE key seconds NX: sets the TTL only when the key exists and has none.
ExpireNX(s, k, seconds) ==
  IF Exists(s, k) /\ s[k].ttl = NoTTL THEN [s EXCEPT ![k].ttl = seconds] ELSE s

\* GET: <<>> (null) for a missing key.
Get(s, k) == s[k].val

\* A SET whose key lives half as long as asked.
SetExHalf(s, k, v, seconds) == [s EXCEPT ![k] = [val |-> <<v>>, ttl |-> seconds \div 2]]

\* SET key value EX seconds.
SetEx(s, k, v, seconds) == [s EXCEPT ![k] = [val |-> <<v>>, ttl |-> seconds]]

\* The store after d seconds: TTLs run down and a key whose TTL ran out is gone.
Elapse(s, d) ==
  [k \in DOMAIN s |->
     IF s[k].ttl = NoTTL THEN s[k]
     ELSE IF s[k].ttl - d <= 0 THEN Absent
     ELSE [s[k] EXCEPT !.ttl = s[k].ttl - d]]

\* --------------------------------------------------------- pure helpers

\* Array.prototype.includes
Includes(list, x) == \E i \in DOMAIN list : list[i] = x

\* String.prototype.startsWith
StartsWith(str, sub) == Len(sub) <= Len(str) /\ SubSeq(str, 1, Len(sub)) = sub

\* String.prototype.includes: sub occurs in str as a contiguous, case-sensitive run.
StrIncludes(str, sub) ==
  \E i \in 0..(Len(str) - Len(sub)) : SubSeq(str, i + 1, i + Len(sub)) = sub

\* Array.prototype.some, left to right, stopping at the first hit.
RECURSIVE Some(_, _, _)
Some(list, i, str) ==
  IF i > Len(list) THEN FALSE
  ELSE IF StrIncludes(str, list[i]) THEN TRUE
  ELSE Some(list, i + 1, str)

DigitChars == <<"0", "1", "2", "3", "4", "5", "6", "7", "8", "9">>

IsDigit(c) == \E i \in 1..10 : DigitChars[i] = c

DigitVal(c) == (CHOOSE i \in 1..10 : DigitChars[i] = c) - 1

\* The decimal rendering of a natural number, as the store returns a counter.
RECURSIVE DecimalString(_)
DecimalString(n) ==
  IF n < 10 THEN <<DigitChars[n + 1]>>
  ELSE Append(DecimalString(n \div 10), DigitChars[(n % 10) + 1])

\* parseInt on a digit string: the value of the leading run of digits
\* (<<>> stands for NaN when there is none).
RECURSIVE ParseDigits(_, _, _)
ParseDigits(str, i, acc) ==
  IF i > Len(str) \/ ~IsDigit(str[i]) THEN acc
  ELSE ParseDigits(str, i + 1, 10 * acc + DigitVal(str[i]))

ParseInt(str) ==
  IF str = <<>> \/ ~IsDigit(str[1]) THEN <<>> ELSE <<ParseDigits(str, 1, 0)>>

\* (num / den).toFixed(1), as a number of tenths.  A tie rounds up, as
\* toFixed does when the quotient is exact in binary (x.25, x.75); the
\* totals an alert is composed for here (10001..10004) are no ties.
ToFixed1(num, den) == (20 * num + den) \div (2 * den)

\* The right operand, whatever the left one is.
TakeDefault(a, b) == b

\* a ?? b
Coalesce(a, b) == IF a = <<>> THEN b ELSE a[1]

\* ------------------------------------------------------------- requests

\* request.ip ?? '127.0.0.1'
ClientKey(r) == Coalesce(r.ip, DEFAULT_IP)

\* request.headers.get('user-agent') || ''
UserAgentOf(r) == IF r.ua = <<>> \/ r.ua = << <<>> >> THEN <<>> ELSE r.ua[1]

\* country && BLOCKED_COUNTRIES.includes(country)
CountryBlocked(r) ==
  /\ r.country # <<>>
  /\ r.country # <<"">>
  /\ Includes(BLOCKED_COUNTRIES, r.country[1])

\* ALLOWED_USER_AGENTS.some(agent => userAgent.includes(agent))
IsAllowedUserAgent(list, r) == Some(list, 1, UserAgentOf(r))

\* The two static checks in the opposite order.
UaThenCountry(list, r) ==
  IF ~IsAllowedUserAgent(list, r) THEN "ua"
  ELSE IF CountryBlocked(r) THEN "country"
  ELSE ""

\* The country check alone, the identity check left to the rate limiter.
CountryCheckOnly(list, r) == IF CountryBlocked(r) THEN "country" ELSE ""

\* Lines 75-86: the first static check that denies r ("" when none does).
StaticDeny(list, r) ==
  IF CountryBlocked(r) THEN "country"
  ELSE IF ~IsAllowedUserAgent(list, r) THEN "ua"
  ELSE ""

\* The handles taken for granted.
NeverFailOpen(rd, rl) == FALSE

\* !redis || !ratelimit

FailOpen(rd, rl) == ~rd \/ ~rl

\* NextResponse.next()
PassThrough == <<[status |-> 0, body |-> <<"next">>]>>

\* What the caller of middleware() gets when the promise it returned
\* rejects: no NextResponse at all, the runtime answers with an error.
UnhandledRejection == <<[status |-> 500, body |-> <<"error">>]>>

\* Every denial answered with status 403.
DenyResponse403(why, r) ==
  IF why = "country" THEN <<[status |-> 403, body |-> <<"country", r.country[1]>>]>>
  ELSE IF why = "ua" THEN <<[status |-> 403, body |-> <<"ua">>]>>
  ELSE <<[status |-> 403, body |-> <<"rate">>]>>

\* new NextResponse(body, { status })
DenyResponse(why, r) ==
  IF why = "country" THEN <<[status |-> 403, body |-> <<"country", r.country[1]>>]>>
  ELSE IF why = "ua" THEN <<[status |-> 403, body |-> <<"ua">>]>>
  ELSE <<[status |-> 429, body |-> <<"rate">>]>>

\* ---------------------------------------------------------- rate limiter

Idle == [count |-> 0, ttl |-> 0]

\* ratelimit.limit(key): admit iff the key's window holds fewer than the
\* capacity; the first request of a key opens its window.
LimitSuccess(rec) == rec.ttl = 0 \/ rec.count < INDIVIDUAL_RATE_LIMIT.requests

LimitUpdate(rec) ==
  IF rec.ttl = 0 THEN [count |-> 1, ttl |-> INDIVIDUAL_RATE_LIMIT.window]
  ELSE IF rec.count < INDIVIDUAL_RATE_LIMIT.requests
       THEN [rec EXCEPT !.count = rec.count + 1]
       ELSE rec

ElapseLimiter(l, d) ==
  [k \in DOMAIN l |-> IF l[k].ttl - d <= 0 THEN Idle ELSE [l[k] EXCEPT !.ttl = l[k].ttl - d]]

\* ------------------------------------------------------- alert message

\* The figures written into the alert text.
Message(totalRequests, blockedRequests) ==
  [strength |-> ToFixed1(totalRequests, ATTACK_TIME_WINDOW_SECONDS),
   total    |-> totalRequests,
   blocked  |-> blockedRequests,
   passed   |-> totalRequests - blockedRequests]

\* totalRequests >= ATTACK_THRESHOLD
AtThreshold(totalRequests) == totalRequests >= ATTACK_THRESHOLD

\* totalRequests > ATTACK_THRESHOLD
OverThreshold(totalRequests) == totalRequests > ATTACK_THRESHOLD

\* !notificationSent
FlagUnset(notificationSent) == notificationSent = <<>>

\* ------------------------------------------------------------ inputs

ChromeUA == <<"M", "o", "z", " ", "C", "h", "r", "o", "m", "e", "/", "1">>

CurlUA == <<"c", "u", "r", "l", "/", "8", ".", "0">>

LowerChromeUA == <<"c", "h", "r", "o", "m", "e">>

EdgeUA == <<"x", "E", "d", "g">>

OtherIp == "10.0.0.1"

ClientKeys == {DEFAULT_IP, OtherIp}

\* Requests of Spec: two clients that pass the static checks, one request
\* from a blocked country and one with a User-Agent off the allow-list.
MainRequests ==
  { [ip |-> <<>>,        country |-> <<"US">>, ua |-> <<ChromeUA>>],
    [ip |-> <<OtherIp>>, country |-> <<"US">>, ua |-> <<ChromeUA>>],
    [ip |-> <<OtherIp>>, country |-> <<"RU">>, ua |-> <<ChromeUA>>],
    [ip |-> <<OtherIp>>, country |-> <<>>,     ua |-> <<CurlUA>>] }

\* Requests of SpecRate: one client, static checks pass.
RateRequests == { [ip |-> <<OtherIp>>, country |-> <<"US">>, ua |-> <<ChromeUA>>] }

\* Requests of SpecClassify: every combination of country and User-Agent.
ClassifyRequests ==
  [ip      : {<<OtherIp>>},
   country : {<<>>, <<"">>, <<"US">>, <<"RU">>, <<"ru">>, <<"VN">>},
   ua      : {<<>>, << <<>> >>, <<ChromeUA>>, <<CurlUA>>, <<LowerChromeUA>>, <<EdgeUA>>}]

\* ALLOWED_USER_AGENTS in the opposite order.
ReversedAgents ==
  [i \in 1..Len(ALLOWED_USER_AGENTS) |->
     ALLOWED_USER_AGENTS[Len(ALLOWED_USER_AGENTS) + 1 - i]]

NoRequest == [ip |-> <<>>, country |-> <<>>, ua |-> <<>>]

NoLocals ==
  [deny |-> "", blocked |-> <<>>, totalRequests |-> 0, blockedRequests |-> <<>>,
   flagRead |-> FALSE, notificationSent |-> <<>>, message |-> <<>>,
   called |-> FALSE, nth |-> 0, nB |-> 0, nT |-> 0, own |-> 0, expired |-> FALSE]

EmptyStore == [k \in Keys |-> Absent]

\* A window of attack:total that began 30 s ago and stands one below the threshold.
NearThreshold ==
  [EmptyStore EXCEPT ![totalKey] =
     [val |-> <<ATTACK_THRESHOLD - 1>>, ttl |-> ATTACK_TIME_WINDOW_SECONDS - 30]]

\* A window of attack:total that has just begun and stands one below the threshold.
FreshWindow ==
  [EmptyStore EXCEPT
     ![totalKey] = [val |-> <<ATTACK_THRESHOLD - 1>>, ttl |-> ATTACK_TIME_WINDOW_SECONDS]]

\* A window of attack:total that has just begun and stands one below the
\* threshold, while the flag set 30 s before the end of the preceding
\* window has 30 s left.
FreshWindowFlagged ==
  [FreshWindow EXCEPT
     ![flagKey] = [val |-> <<"true">>, ttl |-> ATTACK_TIME_WINDOW_SECONDS - 30]]

\* A window that began 30 s ago in which more requests were denied than
\* allowed: attack:total one below the threshold, attack:blocked above it.
BlockedAboveTotal ==
  [NearThreshold EXCEPT
     ![blockedKey] = [val |-> <<ATTACK_THRESHOLD + 5>>,
                      ttl |-> ATTACK_TIME_WINDOW_SECONDS - 30]]

NoLimits == [k \in ClientKeys |-> Idle]

\* OtherIp has used all but one of its requests in a window opened 5 s ago.
NearLimit ==
  [NoLimits EXCEPT ![OtherIp] =
     [count |-> INDIVIDUAL_RATE_LIMIT.requests - 1,
      ttl   |-> INDIVIDUAL_RATE_LIMIT.window - 5]]

\* OtherIp has used all of its requests in a window opened 5 s ago.
AtLimit ==
  [NoLimits EXCEPT ![OtherIp] =
     [count |-> INDIVIDUAL_RATE_LIMIT.requests,
      ttl   |-> INDIVIDUAL_RATE_LIMIT.window - 5]]

\* ------------------------------------------------------------------ Init

InitProcs ==
  /\ pc = [p \in Procs |-> "idle"]
  /\ req = [p \in Procs |-> NoRequest]
  /\ resp = [p \in Procs |-> <<>>]
  /\ loc = [p \in Procs |-> NoLocals]
  /\ nreq = 0

InitGhosts ==
  /\ alerts = 0
  /\ delivered = 0
  /\ flagSets = 0
  /\ denied = IF Exists(store, blockedKey) THEN store[blockedKey].val[1] ELSE 0
  /\ deniedInWindow = IF Exists(store, totalKey) /\ Exists(store, blockedKey)
                      THEN store[blockedKey].val[1] ELSE 0
  /\ admitted = [k \in ClientKeys |-> limiter[k].count]
  /\ calls = [k \in ClientKeys |-> limiter[k].count]
  /\ age = IF Exists(store, totalKey)
           THEN ATTACK_TIME_WINDOW_SECONDS - store[totalKey].ttl ELSE 0

\* Module initialisation, lines 42-59: both handles are created or neither
\* is.  cfgs are the environments and store contents a behaviour starts from.
\* probed tells whether the behaviour records, per invocation, the value its
\* own INCR of attack:total produced (loc[p].own) and whether the key
\* expired between that INCR and the invocation's read (loc[p].expired).
InitProbed(cfgs, lists, probed) ==
  /\ \E c \in cfgs :
       /\ redis = c.redis
       /\ ratelimit = c.redis
       /\ telegram = c.telegram
       /\ store = c.store
       /\ limiter = c.limiter
  /\ agents \in lists
  /\ probe = probed
  /\ InitProcs
  /\ InitGhosts

InitFrom(cfgs, lists) == InitProbed(cfgs, lists, FALSE)

Config(rd, tg, st, lm) == [redis |-> rd, telegram |-> tg, store |-> st, limiter |-> lm]

MainConfigs ==
  { Config(FALSE, TRUE, NearThreshold, NoLimits),
    Config(TRUE, TRUE, EmptyStore, NoLimits),
    Config(TRUE, TRUE, EmptyStore, NearLimit),
    Config(TRUE, TRUE, NearThreshold, NoLimits),
    Config(TRUE, FALSE, NearThreshold, NoLimits) }

Init == InitFrom(MainConfigs, {ALLOWED_USER_AGENTS})

\* --------------------------------------------------------------- steps

Done(p, response) ==
  /\ pc' = [pc EXCEPT ![p] = "done"]
  /\ resp' = [resp EXCEPT ![p] = response]

\* middleware(), lines 63-86: the fail-open test and the two static checks,
\* up to the first await.
Start(p, r, max) ==
  /\ pc[p] \in {"idle", "done"}
  /\ nreq < max
  /\ nreq' = nreq + 1
  /\ req' = [req EXCEPT ![p] = r]
  /\ IF FailOpen(redis, ratelimit)
     THEN /\ Done(p, PassThrough)
          /\ loc' = [loc EXCEPT ![p] = NoLocals]
     ELSE LET why == StaticDeny(agents, r) IN
          /\ pc' = [pc EXCEPT ![p] = IF why = "" THEN "limit" ELSE "incrBlocked"]
          /\ resp' = [resp EXCEPT ![p] = <<>>]
          /\ loc' = [loc EXCEPT ![p] = [NoLocals EXCEPT !.deny = why]]
  /\ UNCHANGED <<env, store, limiter, ghosts>>

\* The increment sent to the other counter.
IncrementTotalCounter(s) == Incr(s, totalKey)

\* await redis.incr('attack:blocked')
IncrementBlockedCounter(s) == Incr(s, blockedKey)

\* A deny path that records the denial and then goes on to the aggregation.
IncrBlockedFallsThrough(p) ==
  /\ pc[p] = "incrBlocked"
  /\ store' = IncrementBlockedCounter(store)
  /\ denied' = IF Exists(store, blockedKey) THEN denied + 1 ELSE 1
  /\ deniedInWindow' = IF Exists(store, totalKey) THEN deniedInWindow + 1 ELSE 0
  /\ loc' = [loc EXCEPT ![p].nB = @ + 1]
  /\ pc' = [pc EXCEPT ![p] = "pipeIncr"]
  /\ UNCHANGED <<env, limiter, req, resp, nreq, alerts, delivered, flagSets, admitted,
                 calls, age>>

\* Lines 77-78, 84-85, 91-92: the deny path's increment, then the response.
IncrBlocked(p) ==
  /\ pc[p] = "incrBlocked"
  /\ store' = IncrementBlockedCounter(store)
  /\ denied' = IF Exists(store, blockedKey) THEN denied + 1 ELSE 1
  /\ deniedInWindow' = IF Exists(store, totalKey) THEN deniedInWindow + 1 ELSE 0
  /\ loc' = [loc EXCEPT ![p].nB = @ + 1]
  /\ Done(p, DenyResponse(loc[p].deny, req[p]))
  /\ UNCHANGED <<env, limiter, req, nreq, alerts, delivered, flagSets, admitted, calls, age>>

\* Lines 89-90: ratelimit.limit(ip), one atomic step of the limiter.
Limit(p) ==
  /\ pc[p] = "limit"
  /\ LET key == ClientKey(req[p])
         rec == limiter[key]
         success == LimitSuccess(rec)
         fresh == rec.ttl = 0
     IN /\ limiter' = [limiter EXCEPT ![key] = LimitUpdate(rec)]
        /\ admitted' = [admitted EXCEPT ![key] =
                          (IF fresh THEN 0 ELSE @) + (IF success THEN 1 ELSE 0)]
        /\ calls' = [calls EXCEPT ![key] = (IF fresh THEN 0 ELSE @) + 1]
        /\ pc' = [pc EXCEPT ![p] = IF success THEN "pipeIncr" ELSE "incrBlocked"]
        /\ loc' = [loc EXCEPT ![p].deny = IF success THEN "" ELSE "rate",
                              ![p].nth = (IF fresh THEN 0 ELSE calls[key]) + 1]
  /\ UNCHANGED <<env, store, req, resp, nreq, alerts, delivered, flagSets, denied,
                 deniedInWindow, age>>

\* getAttackCounters, line 132: pipe.incr(totalKey)
PipeIncr(p) ==
  /\ pc[p] = "pipeIncr"
  /\ store' = Incr(store, totalKey)
  /\ IF Exists(store, totalKey)
     THEN UNCHANGED <<alerts, delivered, flagSets, deniedInWindow, age>>
     ELSE alerts' = 0 /\ delivered' = 0 /\ flagSets' = 0 /\ deniedInWindow' = 0 /\ age' = 0
  /\ loc' = [loc EXCEPT ![p].nT = @ + 1,
                         ![p].own = IF probe THEN store'[totalKey].val[1] ELSE 0]
  /\ pc' = [pc EXCEPT ![p] = "pipeExpire"]
  /\ UNCHANGED <<env, limiter, req, resp, nreq, denied, admitted, calls>>

\* getAttackCounters, line 133: pipe.expire(totalKey, 60, 'NX')
PipeExpire(p) ==
  /\ pc[p] = "pipeExpire"
  /\ store' = ExpireNX(store, totalKey, ATTACK_TIME_WINDOW_SECONDS)
  /\ pc' = [pc EXCEPT ![p] = "pipeGet"]
  /\ UNCHANGED <<env, limiter, req, resp, loc, nreq, ghosts>>

\* getAttackCounters, line 134: pipe.get(blockedKey), a string or null
PipeGet(p) ==
  /\ pc[p] = "pipeGet"
  /\ LET v == Get(store, blockedKey)
     IN loc' = [loc EXCEPT ![p].blocked =
                  IF v = <<>> THEN <<>> ELSE <<DecimalString(v[1])>>]
  /\ pc' = [pc EXCEPT ![p] = "pipeExpireBlocked"]
  /\ UNCHANGED <<env, store, limiter, req, resp, nreq, ghosts>>

\* getAttackCounters, line 135: pipe.expire(blockedKey, 60, 'NX')
PipeExpireBlocked(p) ==
  /\ pc[p] = "pipeExpireBlocked"
  /\ store' = ExpireNX(store, blockedKey, ATTACK_TIME_WINDOW_SECONDS)
  /\ pc' = [pc EXCEPT ![p] = "getTotal"]
  /\ UNCHANGED <<env, limiter, req, resp, loc, nreq, ghosts>>

\* getAttackCounters, lines 138-143, and the threshold test of line 101.
GetTotal(p) ==
  /\ pc[p] = "getTotal"
  /\ LET currentTotal == Coalesce(Get(store, totalKey), 1)
         blockedRequests == ParseInt(Coalesce(loc[p].blocked, <<"0">>))
     IN /\ loc' = [loc EXCEPT ![p].totalRequests = currentTotal,
                              ![p].blockedRequests = blockedRequests]
        /\ IF OverThreshold(currentTotal)
           THEN pc' = [pc EXCEPT ![p] = "getFlag"] /\ UNCHANGED resp
           ELSE Done(p, PassThrough)
  /\ UNCHANGED <<env, store, limiter, req, nreq, ghosts>>

\* Lines 102-114: read the flag; when it is unset, compose the message.
GetFlag(p) ==
  /\ pc[p] = "getFlag"
  /\ LET notificationSent == Get(store, flagKey)
     IN IF FlagUnset(notificationSent)
        THEN /\ loc' = [loc EXCEPT ![p].flagRead = TRUE,
                                   ![p].notificationSent = notificationSent,
                                   ![p].message = <<Message(loc[p].totalRequests,
                                                            loc[p].blockedRequests[1])>>]
             /\ pc' = [pc EXCEPT ![p] = "send"]
             /\ UNCHANGED resp
        ELSE /\ loc' = [loc EXCEPT ![p].flagRead = TRUE,
                                   ![p].notificationSent = notificationSent]
             /\ Done(p, PassThrough)
  /\ UNCHANGED <<env, store, limiter, req, nreq, ghosts>>

\* A send that lets its failure out: missing credentials or a failed post
\* reject the call and with it the invocation.
SendTelegramMessageRethrows(p) ==
  /\ pc[p] = "send"
  /\ alerts' = alerts + 1
  /\ loc' = [loc EXCEPT ![p].called = TRUE]
  /\ IF telegram
     THEN \E ok \in BOOLEAN :
            /\ delivered' = delivered + (IF ok THEN 1 ELSE 0)
            /\ IF ok THEN pc' = [pc EXCEPT ![p] = "setFlag"] /\ UNCHANGED resp
                     ELSE Done(p, UnhandledRejection)
     ELSE UNCHANGED delivered /\ Done(p, UnhandledRejection)
  /\ UNCHANGED <<env, store, limiter, req, nreq, flagSets, denied, deniedInWindow,
                 admitted, calls, age>>

\* Line 116 and sendTelegramMessage, lines 150-169: without credentials
\* nothing is posted; a post either reaches Telegram or throws and is swallowed.
SendTelegramMessage(p) ==
  /\ pc[p] = "send"
  /\ alerts' = alerts + 1
  /\ loc' = [loc EXCEPT ![p].called = TRUE]
  /\ IF telegram
     THEN \E ok \in BOOLEAN : delivered' = delivered + (IF ok THEN 1 ELSE 0)
     ELSE UNCHANGED delivered
  /\ pc' = [pc EXCEPT ![p] = "setFlag"]
  /\ UNCHANGED <<env, store, limiter, req, resp, nreq, flagSets, denied, deniedInWindow,
                 admitted, calls, age>>

\* Lines 117-121: set the flag for 60 s, then pass the request through.
SetFlag(p) ==
  /\ pc[p] = "setFlag"
  /\ store' = SetEx(store, flagKey, "true", ATTACK_TIME_WINDOW_SECONDS)
  /\ flagSets' = flagSets + 1
  /\ Done(p, PassThrough)
  /\ UNCHANGED <<env, limiter, req, loc, nreq, alerts, delivered, denied, deniedInWindow,
                 admitted, calls, age>>

\* d seconds pass.  The commands of one pipeline run back to back on the
\* server, so no time passes between them.
Tick(d) ==
  /\ \A p \in Procs : pc[p] \notin {"pipeExpire", "pipeGet", "pipeExpireBlocked"}
  /\ store' = Elapse(store, d)
  /\ limiter' = ElapseLimiter(limiter, d)
  /\ age' = IF Exists(store', totalKey) THEN age + d ELSE 0
  /\ deniedInWindow' = IF Exists(store', totalKey) THEN deniedInWindow ELSE 0
  /\ loc' = [p \in Procs |->
               IF /\ probe /\ pc[p] = "getTotal"
                  /\ Exists(store, totalKey) /\ ~Exists(store', totalKey)
               THEN [loc[p] EXCEPT !.expired = TRUE] ELSE loc[p]]
  /\ UNCHANGED <<env, pc, req, resp, nreq, alerts, delivered, flagSets, denied,
                 admitted, calls>>

Step(p) ==
  \/ IncrBlocked(p)
  \/ Limit(p)
  \/ PipeIncr(p)
  \/ PipeExpire(p)
  \/ PipeGet(p)
  \/ PipeExpireBlocked(p)
  \/ GetTotal(p)
  \/ GetFlag(p)
  \/ SendTelegramMessage(p)
  \/ SetFlag(p)

Next ==
  \/ \E p \in Procs : \E r \in MainRequests : Start(p, r, MaxRequests)
  \/ \E p \in Procs : Step(p)
  \/ \E d \in TickSteps : Tick(d)

Spec == Init /\ [][Next]_vars

\* One client whose requests pass the static checks, from an empty store.
InitRate ==
  InitFrom({Config(TRUE, TRUE, EmptyStore, NoLimits)}, {ALLOWED_USER_AGENTS})

RateStep(p) ==
  \/ IncrBlocked(p)
  \/ Limit(p)
  \/ PipeIncr(p)
  \/ PipeExpire(p)
  \/ PipeGet(p)
  \/ PipeExpireBlocked(p)
  \/ GetTotal(p)

NextRate ==
  \/ \E p \in OneProc : \E r \in RateRequests : Start(p, r, MaxRateRequests)
  \/ \E p \in OneProc : RateStep(p)
  \/ \E d \in RateTickSteps : Tick(d)

SpecRate == InitRate /\ [][NextRate]_vars

\* Every combination of country and User-Agent, the allow-list in either
\* order, the client under or at its rate limit.
InitClassify ==
  InitFrom({Config(TRUE, TRUE, EmptyStore, NoLimits),
            Config(TRUE, TRUE, EmptyStore, AtLimit)},
           {ALLOWED_USER_AGENTS, ReversedAgents})

NextClassify ==
  \/ \E p \in OneProc : \E r \in ClassifyRequests : Start(p, r, MaxClassifyRequests)
  \/ \E p \in OneProc : RateStep(p)
  \/ \E d \in TickSteps : Tick(d)

SpecClassify == InitClassify /\ [][NextClassify]_vars

\* --------------------------------------------------- store-call failures

\* The awaits on the store client: redis.incr (line 147), pipe.exec (line
\* 136), redis.get (lines 138 and 102) and redis.set (line 117).
StoreCalls == {"incrBlocked", "pipeIncr", "getTotal", "getFlag", "setFlag"}

\* The awaited store call of p rejects (network failure or timeout) before
\* the command reaches the server.  There is no try/catch around any store
\* call, neither in middleware() nor in getAttackCounters() nor in
\* incrementBlockedCounter(), so the rejection leaves middleware().
StoreFail(p) ==
  /\ pc[p] \in StoreCalls
  /\ Done(p, UnhandledRejection)
  /\ UNCHANGED <<env, store, limiter, req, loc, nreq, ghosts>>

InitFault ==
  InitFrom({Config(TRUE, TRUE, NearThreshold, NoLimits)}, {ALLOWED_USER_AGENTS})

NextFault ==
  \/ \E p \in OneProc : \E r \in MainRequests : Start(p, r, MaxFaultRequests)
  \/ \E p \in OneProc : Step(p)
  \/ \E p \in OneProc : StoreFail(p)
  \/ \E d \in TickSteps : Tick(d)

SpecFault == InitFault /\ [][NextFault]_vars

\* ------------------------------------------- requests taken one at a time

\* Around the threshold: with and without Telegram credentials, with a flag
\* left by the alert of the preceding window, with more denied than allowed
\* requests in the window, and with one client next to its rate limit.
InitSeq ==
  InitFrom({Config(TRUE, TRUE, NearThreshold, NoLimits),
            Config(TRUE, FALSE, NearThreshold, NoLimits),
            Config(TRUE, TRUE, FreshWindow, NoLimits),
            Config(TRUE, TRUE, FreshWindowFlagged, NoLimits),
            Config(TRUE, TRUE, BlockedAboveTotal, NoLimits),
            Config(TRUE, TRUE, NearThreshold, NearLimit)},
           {ALLOWED_USER_AGENTS})

NextSeq ==
  \/ \E p \in OneProc : \E r \in MainRequests : Start(p, r, MaxSeqRequests)
  \/ \E p \in OneProc : Step(p)
  \/ \E d \in TickSteps : Tick(d)

SpecSeq == InitSeq /\ [][NextSeq]_vars

\* ---------------------------------------- the read after the increment

\* Two invocations from an empty store, each recording what its own INCR
\* produced and whether attack:total expired before its read.
InitRead ==
  InitProbed({Config(TRUE, TRUE, EmptyStore, NoLimits)}, {ALLOWED_USER_AGENTS}, TRUE)

NextRead ==
  \/ \E p \in Procs : \E r \in MainRequests : Start(p, r, MaxReadRequests)
  \/ \E p \in Procs : RateStep(p)
  \/ \E d \in TickSteps : Tick(d)

SpecRead == InitRead /\ [][NextRead]_vars

\* ------------------------------------------------------------ properties

Status(p) == resp[p][1].status

Returned(p) == pc[p] = "done" /\ resp[p] # <<>>

Denied(p) == Returned(p) /\ Status(p) \in {403, 429}

Passed(p) == Returned(p) /\ resp[p] = PassThrough

CounterValue(s, k) == IF Exists(s, k) THEN s[k].val[1] ELSE 0

\* C1: for every client key, the requests admitted by ratelimit.limit within
\* the key's current window never exceed the capacity of 10, however the
\* invocations for that key interleave.
C1_AdmittedWithinCapacity == \A k \in ClientKeys : admitted[k] <= 10

\* Two invocations for the same key were in flight together at the limit:
\* one took the last admission, the other was refused.
C1_Witness ==
  \E p, q \in Procs :
    /\ p # q
    /\ ClientKey(req[p]) = ClientKey(req[q])
    /\ admitted[ClientKey(req[p])] = 10
    /\ pc[p] = "pipeIncr"
    /\ pc[q] = "incrBlocked" /\ loc[q].deny = "rate"

\* C2: at most one alert is sent and at most one flag is set in one window
\* of attack:total, however the allowed requests interleave.
C2_AtMostOneAlertPerWindow == alerts <= 1 /\ flagSets <= 1

\* C3: in enforced mode a denied request has incremented attack:blocked
\* exactly once and attack:total never, an allowed request attack:total
\* exactly once and attack:blocked never, each increment adds exactly 1 to
\* its counter and leaves the other alone, and attack:blocked never exceeds
\* the denials since the key was last absent.
C3_CountersMatchOutcome ==
  /\ [](redis => \A p \in Procs :
          /\ Denied(p) => loc[p].nB = 1 /\ loc[p].nT = 0
          /\ Passed(p) => loc[p].nT = 1 /\ loc[p].nB = 0)
  /\ [](CounterValue(store, blockedKey) <= denied)
  /\ [][\A p \in Procs :
          /\ (pc[p] = "incrBlocked" /\ pc'[p] = "done") =>
               /\ CounterValue(store', blockedKey) = CounterValue(store, blockedKey) + 1
               /\ store'[totalKey] = store[totalKey]
          /\ (pc[p] = "pipeIncr" /\ pc'[p] = "pipeExpire") =>
               /\ CounterValue(store', totalKey) = CounterValue(store, totalKey) + 1
               /\ store'[blockedKey] = store[blockedKey]]_vars

\* A rate-limited request and an allowed one have returned, after another
\* denial, and both counters stand above zero.
C3_Witness ==
  /\ \E p, q \in Procs :
       /\ Denied(p) /\ loc[p].deny = "rate"
       /\ Passed(q) /\ redis
  /\ CounterValue(store, blockedKey) >= 2
  /\ CounterValue(store, totalKey) >= 1

BlockedCountrySet == {BLOCKED_COUNTRIES[i] : i \in DOMAIN BLOCKED_COUNTRIES}

CountryDenial(p) ==
  /\ Denied(p)
  /\ Status(p) = 403
  /\ resp[p][1].body[1] = "country"

\* C4: in enforced mode a request is answered 403 for its country iff its
\* country is present and in the blocked set, whatever its User-Agent and
\* the state of its rate limit; a request without country is never so denied.
C4_CountryDenialIffBlocked ==
  redis => \A p \in Procs :
    Returned(p) =>
      (CountryDenial(p) <=>
         (req[p].country # <<>> /\ req[p].country[1] \in BlockedCountrySet))

\* A request from a blocked country with a User-Agent off the allow-list,
\* from a client at its rate limit, was denied for its country.
C4_Witness ==
  \E p \in Procs :
    /\ CountryDenial(p)
    /\ req[p].country = <<"RU">>
    /\ req[p].ua = <<CurlUA>>
    /\ limiter[ClientKey(req[p])].count = 10

AllowedAgentSet == {ALLOWED_USER_AGENTS[i] : i \in DOMAIN ALLOWED_USER_AGENTS}

\* Some allow-listed entry occurs in the User-Agent of r.
ContainsAllowedAgent(r) ==
  LET ua == IF r.ua = <<>> THEN <<>> ELSE r.ua[1]
  IN \E a \in AllowedAgentSet : \E i \in 1..Len(ua) : \E j \in i..Len(ua) :
       SubSeq(ua, i, j) = a

\* C5: in enforced mode a request whose User-Agent holds no allow-listed
\* entry (an empty or missing one included) is answered 403, also without a
\* country or with an allowed one; a request whose User-Agent holds one is
\* never denied for its identity, in whatever order the list is.
C5_IdentityDenial ==
  redis => \A p \in Procs :
    Returned(p) =>
      /\ ~ContainsAllowedAgent(req[p]) => Status(p) = 403
      /\ ContainsAllowedAgent(req[p]) => resp[p][1].body[1] # "ua"

\* With the list reversed, a request without User-Agent header and without
\* country was answered 403 for its identity.
C5_Witness ==
  /\ agents = ReversedAgents
  /\ \E p \in Procs :
       /\ Denied(p)
       /\ req[p].ua = <<>>
       /\ req[p].country = <<>>
       /\ resp[p] = <<[status |-> 403, body |-> <<"ua">>]>>

\* The invocation has its answer from ratelimit.limit.
Limited(p) == loc[p].nth > 0

\* C6: with capacity 10 per 10 s, of the requests of one client that pass
\* the static checks and arrive within one window opened from an empty
\* rate-limit state, the 1st to 10th are admitted and passed through and
\* the 11th is denied with status 429.
C6_TenAdmittedEleventhDenied ==
  \A p \in Procs :
    Limited(p) =>
      /\ loc[p].nth \in 1..10 =>
           /\ loc[p].deny = ""
           /\ Returned(p) => resp[p] = PassThrough
      /\ loc[p].nth = 11 =>
           /\ loc[p].deny = "rate"
           /\ Returned(p) => Status(p) = 429

\* The 11th request of a window was answered 429 after ten were admitted.
C6_Witness ==
  \E p \in Procs :
    /\ Returned(p)
    /\ loc[p].nth = 11
    /\ Status(p) = 429
    /\ admitted[ClientKey(req[p])] = 10
    /\ CounterValue(store, totalKey) = 10

\* C7: when the store is unconfigured every request is passed through,
\* whatever its country and User-Agent, and a request changes neither the
\* counters, the flag nor the rate-limit state and sends no alert.
C7_FailOpen ==
  /\ [](~redis => \A p \in Procs : pc[p] \in {"idle", "done"} /\ (Returned(p) => Passed(p)))
  /\ [][(~redis /\ pc' # pc) =>
          UNCHANGED <<store, limiter, alerts, delivered, flagSets>>]_vars

\* Unconfigured, requests from a blocked country and with a User-Agent off
\* the allow-list were passed through and attack:total kept its value.
C7_Witness ==
  /\ ~redis
  /\ \E p, q \in Procs :
       /\ Passed(p) /\ req[p].country = <<"RU">>
       /\ Passed(q) /\ req[q].ua = <<CurlUA>>
  /\ store = NearThreshold

\* The blocked value an invocation read, as the number its digits stand for.
BlockedRead(p) ==
  IF loc[p].blocked = <<>> THEN 0
  ELSE CHOOSE n \in 0..(ATTACK_THRESHOLD + 10) : DecimalString(n) = loc[p].blocked[1]

\* C8: an allowed request calls sendTelegramMessage iff the total it got
\* from getAttackCounters is above 10000 (10000 sends nothing, 10001 sends)
\* and it read the flag as absent; the message carries that total, the
\* blocked value the same request read and passed = total - blocked.
C8_AlertIffOverThresholdAndNoFlag ==
  redis => \A p \in Procs :
    /\ Passed(p) =>
         (loc[p].called <=>
            /\ loc[p].totalRequests >= 10001
            /\ loc[p].flagRead
            /\ loc[p].notificationSent = <<>>)
    /\ loc[p].called =>
         /\ loc[p].message # <<>>
         /\ loc[p].message[1].total = loc[p].totalRequests
         /\ loc[p].message[1].blocked = BlockedRead(p)
         /\ loc[p].message[1].passed = loc[p].totalRequests - BlockedRead(p)

\* After one denial, two allowed requests read 10001: the first sent the
\* alert with blocked 1 and passed 10000 and set the flag, the second found
\* the flag set and sent nothing.
C8_Witness ==
  /\ alerts = 1
  /\ Exists(store, flagKey)
  /\ \E p, q \in Procs :
       /\ Passed(p) /\ loc[p].totalRequests = 10001 /\ loc[p].called
       /\ loc[p].message[1].blocked = 1 /\ loc[p].message[1].passed = 10000
       /\ Passed(q) /\ loc[q].totalRequests = 10001 /\ ~loc[q].called
       /\ loc[q].flagRead /\ loc[q].notificationSent # <<>>

\* C9: when a denied request returns, attack:blocked has an expiry.
C9_DenyArmsBlockedExpiry ==
  [][\A p \in Procs :
       (pc[p] = "incrBlocked" /\ pc'[p] = "done") =>
          store'[blockedKey].ttl # NoTTL]_vars

\* C10: the expiry of attack:total is armed by the increment that creates
\* the key and never renewed: the key lives exactly 60 s from that
\* increment, however often it is incremented, and the first increment
\* after it is gone starts a new window at 1.
C10_TotalWindowFixed ==
  /\ [](Exists(store, totalKey) =>
          /\ age < 60
          /\ IF store[totalKey].ttl = NoTTL
             THEN age = 0 /\ \E p \in Procs : pc[p] = "pipeExpire"
             ELSE age + store[totalKey].ttl = 60)
  /\ [][/\ (Exists(store, totalKey) /\ ~Exists(store', totalKey)) =>
             \E d \in TickSteps : age + d >= 60
        /\ (~Exists(store, totalKey) /\ Exists(store', totalKey)) =>
             store'[totalKey].val = <<1>> /\ age' = 0]_vars

\* attack:total was incremented again 30 s into its window and still
\* expires 60 s after its first increment.
C10_Witness ==
  /\ store[totalKey] = [val |-> <<2>>, ttl |-> 30]
  /\ age = 30
  /\ \E p \in Procs : Passed(p) /\ redis /\ loc[p].totalRequests = 2

\* C11: the attack:blocked value an allowed request reads (pipeline GET,
\* line 134) counts only requests denied since the current attack:total
\* window began, that is, it is at most the number of deny-path increments
\* made since attack:total was last created.
C11_BlockedCoversTotalWindow ==
  [][\A p \in Procs :
       (pc[p] = "pipeGet" /\ pc'[p] = "pipeExpireBlocked") =>
          CounterValue(store, blockedKey) <= deniedInWindow]_vars

\* C12: whenever the notification flag is present, an alert has actually
\* been delivered over the channel during the current attack:total window
\* (the flag is never set after a skipped or failed send and never left
\* over from an earlier window).
C12_FlagImpliesDelivered == Exists(store, flagKey) => delivered >= 1

\* C13: a store call that fails or times out is treated as allow-and-skip:
\* the invocation still ends with 403, 429 or the pass-through response and
\* no error leaves middleware().
C13_StoreFailureAllows ==
  \A p \in Procs : Returned(p) => Status(p) \in {403, 429} \/ resp[p] = PassThrough

\* C14: a notification that fails to be delivered, or is skipped for want
\* of credentials, never changes the response of the request that triggered
\* it: the request made its one increment of attack:total, the send leaves
\* the store as it is, and the request ends with the pass-through response.
C14_SendFailureKeepsResponse ==
  /\ [](\A p \in Procs :
          loc[p].called =>
            /\ loc[p].nT = 1 /\ loc[p].nB = 0
            /\ pc[p] \in {"setFlag", "done"}
            /\ pc[p] = "done" => resp[p] = PassThrough)
  /\ [][\A p \in Procs :
          pc[p] = "send" /\ pc'[p] # "send" =>
            /\ store' = store
            /\ pc'[p] = "setFlag"]_vars

\* Reached both ways: the alert was skipped for want of credentials, or the
\* one post of this window failed, and the request passed through.
C14_Witness ==
  \E p \in OneProc :
    /\ loc[p].called /\ Passed(p) /\ alerts = 1 /\ delivered = 0
    /\ Exists(store, totalKey) /\ store[totalKey].val[1] = loc[p].totalRequests

C14_WitnessNoCredentials == C14_Witness /\ ~telegram

C14_WitnessFailedPost == C14_Witness /\ telegram

\* C15: a denied request increments attack:blocked once before it returns
\* and never reaches the aggregation or the notification: it makes no
\* increment of attack:total, neither reads nor writes the flag and sends
\* no alert, whatever attack:total is, also when attack:total is above the
\* threshold and the flag is absent.
C15_DeniedSkipsAggregation ==
  /\ [](\A p \in Procs :
          /\ (pc[p] = "incrBlocked" \/ Denied(p)) =>
               /\ loc[p].nT = 0 /\ loc[p].totalRequests = 0
               /\ ~loc[p].flagRead /\ ~loc[p].called /\ loc[p].message = <<>>
          /\ Denied(p) => loc[p].nB = 1)
  /\ [][\A p \in Procs :
          pc[p] = "incrBlocked" /\ pc'[p] # "incrBlocked" =>
            /\ pc'[p] = "done" /\ Denied(p)'
            /\ CounterValue(store', blockedKey) = CounterValue(store, blockedKey) + 1
            /\ store'[totalKey] = store[totalKey]
            /\ store'[flagKey] = store[flagKey]
            /\ alerts' = alerts /\ flagSets' = flagSets]_vars

\* A request was denied while attack:total stood above the threshold and
\* the flag was absent; the total is still what it was and no alert went out.
C15_Witness ==
  \E p \in OneProc :
    /\ Denied(p) /\ loc[p].nB = 1
    /\ CounterValue(store, totalKey) > ATTACK_THRESHOLD
    /\ ~Exists(store, flagKey)
    /\ alerts = 0

FailsCountry(r) == r.country # <<>> /\ r.country[1] \in BlockedCountrySet

\* C16: the checks run in the order country, identity, rate limit and stop
\* at the first that denies: a request denied for its country or identity
\* never reaches the limiter and leaves the rate-limit state as it is, a
\* request that fails both country and identity is answered with the
\* country reason, and a request that fails neither goes to the limiter.
C16_ChecksInOrder ==
  /\ [](redis => \A p \in Procs :
          pc[p] # "idle" =>
            /\ (FailsCountry(req[p]) \/ ~ContainsAllowedAgent(req[p])) =>
                 /\ loc[p].nth = 0
                 /\ pc[p] \in {"incrBlocked", "done"}
            /\ (Returned(p) /\ FailsCountry(req[p])) => CountryDenial(p)
            /\ (Returned(p) /\ ~FailsCountry(req[p]) /\ ~ContainsAllowedAgent(req[p])) =>
                 Status(p) = 403 /\ resp[p][1].body = <<"ua">>
            /\ (~FailsCountry(req[p]) /\ ContainsAllowedAgent(req[p]) /\ pc[p] # "limit") =>
                 loc[p].nth >= 1)
  /\ [][\A p \in Procs :
          (/\ redis
           /\ pc'[p] # pc[p]
           /\ FailsCountry(req'[p]) \/ ~ContainsAllowedAgent(req'[p]))
          => (limiter' = limiter /\ calls' = calls /\ admitted' = admitted)]_vars

\* A request from a blocked country with a User-Agent off the allow-list
\* was answered with the country reason, and its client, which had made no
\* request before, still has an untouched rate-limit window.
C16_Witness ==
  \E p \in OneProc :
    /\ CountryDenial(p)
    /\ req[p].country = <<"VN">>
    /\ req[p].ua = <<CurlUA>>
    /\ loc[p].nth = 0
    /\ limiter = NoLimits
    /\ calls[ClientKey(req[p])] = 0

\* C17: when requests are processed one at a time, at most one alert is
\* sent during any single attack:total window: the flag is set for the
\* length of the window and no earlier than the window began, so it
\* outlives the window in which it was set.
\* (alerts is reset when attack:total is created, so while the key exists
\* it counts the alerts of its window.)
C17_SequentialOneAlert ==
  Exists(store, totalKey) =>
    /\ alerts <= 1
    /\ (alerts = 1 /\ \A p \in OneProc : pc[p] # "setFlag") =>
         /\ Exists(store, flagKey)
         /\ store[flagKey].ttl >= store[totalKey].ttl

\* 30 s after the alert of a window, a request of the same window read a
\* total above the threshold, found the flag set and sent nothing.
C17_Witness ==
  \E p \in OneProc :
    /\ alerts = 1 /\ age = 30
    /\ Passed(p) /\ ~loc[p].called
    /\ loc[p].totalRequests = ATTACK_THRESHOLD + 2
    /\ loc[p].notificationSent # <<>>

\* C18: in every alert that is sent the reported passed value, total minus
\* blocked, is not negative: the blocked value an allowed request read
\* never exceeds the total it read.
C18_PassedNonNegative ==
  \A p \in Procs :
    loc[p].called =>
      /\ loc[p].message[1].passed >= 0
      /\ BlockedRead(p) <= loc[p].totalRequests

\* An allowed request of the window that attack:total now counts returned
\* after reading a total above the threshold.
OverThresholdRead ==
  \E p \in Procs :
    /\ Passed(p)
    /\ loc[p].totalRequests > ATTACK_THRESHOLD
    /\ CounterValue(store, totalKey) >= loc[p].totalRequests

\* C19: with credentials configured, every attack:total window in which an
\* allowed request read a total above the threshold has had an alert by the
\* time it ends; a flag left by the alert of the preceding window does not
\* keep the new window without its alert.
C19_EveryAttackWindowAlerts ==
  [][(/\ telegram
      /\ Exists(store, totalKey) /\ ~Exists(store', totalKey)
      /\ OverThresholdRead)
     => alerts >= 1]_vars

\* Invocation p has made its read of attack:total (line 138).
ReadDone(p) ==
  /\ loc[p].nT = 1
  /\ pc[p] \notin {"pipeExpire", "pipeGet", "pipeExpireBlocked", "getTotal"}

\* C20 as stated: under any interleaving the total a request evaluates is
\* at least the value its own increment produced when attack:total did not
\* expire in between, is 1 when the key expired between the increment and
\* the read, and is never 0 or absent.
C20_ReadIsOwnOrOne ==
  \A p \in Procs :
    ReadDone(p) =>
      /\ loc[p].totalRequests >= 1
      /\ ~loc[p].expired => loc[p].totalRequests >= loc[p].own
      /\ loc[p].expired => loc[p].totalRequests = 1

\* C20 amended: under any interleaving the total a request evaluates is at
\* least the value its own increment produced when attack:total did not
\* expire in between; when the key expired in between it is 1 if the key is
\* still absent at the read and otherwise the count of the window other
\* requests have begun since, which may be above 1; it is never 0 or absent.
C20_ReadAtLeastOwnOrNewWindow ==
  /\ [](\A p \in Procs :
          ReadDone(p) =>
            /\ loc[p].totalRequests >= 1
            /\ ~loc[p].expired => loc[p].totalRequests >= loc[p].own)
  /\ [][\A p \in Procs :
          (pc[p] = "getTotal" /\ pc'[p] # "getTotal") =>
             loc'[p].totalRequests =
               (IF Exists(store, totalKey) THEN store[totalKey].val[1] ELSE 1)]_vars

\* attack:total expired after p's increment produced 1; two increments of
\* other requests began a new window before p read, and p read 2.  The
\* second of those requests, whose key did not expire, read the 2 its own
\* increment produced.
C20_Witness ==
  \E p, q \in Procs :
    /\ ReadDone(p) /\ loc[p].expired /\ loc[p].own = 1 /\ loc[p].totalRequests = 2
    /\ ReadDone(q) /\ ~loc[q].expired /\ loc[q].own = 2 /\ loc[q].totalRequests = 2

====
